---- MODULE Spec2Model ----
(***************************************************************************)
(* pinger: a periodic ICMP probe loop (run) raced against the termination  *)
(* signals (shutdown_signal) by the select! in main.                       *)
(*                                                                         *)
(* One state of the model is one state of the process: where main is, the  *)
(* suspension point of the run future, the state of the shutdown_signal    *)
(* future, the blocking-pool tasks spawned by spawn_blocking, the interval *)
(* timer and the records handed to the tracing subscriber.  Every poll of  *)
(* a future by block_on on the main thread is one atomic action; blocking  *)
(* tasks, the clock and the operating system's signals move on their own.  *)
(*                                                                         *)
(* Steps of one poll are separate actions (RunStart, Dispatch, Join): the  *)
(* main thread can be delayed between any two of them, so every            *)
(* interleaving with the other threads is a behaviour of the program.      *)
(*                                                                         *)
(* Left out: the unix-only build is modelled (on other platforms the       *)
(* terminate listener never resolves); --interval is positive (a zero      *)
(* period panics in tokio::time::interval); the logger and the runtime are *)
(* built without failure; a signal is delivered only once its handler is   *)
(* installed.                                                              *)
(***************************************************************************)
EXTENDS Integers, Sequences, FiniteSets, TLC

(* ------------------------------ bounds -------------------------------- *)

\* Most probes dispatched in one run of the model.
MaxDispatch == 4

\* The clock stops advancing at this instant (in units of the shortest interval).
MaxTime == 3

\* Most signals the operating system delivers in one run of the model.
MaxSignals == 2

(* ------------------------------ inputs -------------------------------- *)

Addrs == {"A1", "A2"}

NoAddr == "none"

\* Command-line values of --address: two literals and one host name.
AddressStrs == {"lit:A1", "lit:A2", "host"}

\* What the resolver does when asked: fail to be built, fail to get a runtime,
\* fail the lookup, or answer with an ordered list of addresses.
ResolverErrors == {"builder_err", "runtime_err", "lookup_err"}

ResolverAnswers == {<< >>, <<"A1">>, <<"A1", "A2">>, <<"A2", "A1">>}

\* The resolver before it is asked; it stays so when the address is a literal.
NotAsked == [err |-> "not_asked", addrs |-> << >>]

ResolverEnvs ==
    {[err |-> e, addrs |-> << >>] : e \in ResolverErrors}
        \cup {[err |-> "none", addrs |-> a] : a \in ResolverAnswers}

\* Exit statuses: main returning, clap rejecting the arguments, a panic of main.
ExitSuccess == 0

ExitUsage == 2

ExitPanic == 101

\* Values of --interval, in clock units (a positive duration).
Intervals == {1, 2}

\* What one blocking task can deliver: the ping's Ok, a ping error, or a panic
\* of the closure, which the JoinHandle turns into a JoinError.
PingErrors == {"timeout", "io"}

TaskResults == {"Ok", "panic"} \cup PingErrors

SignalKinds == {"INT", "TERM"}

VARIABLES
    addressStr,   \* the --address argument
    resolverEnv,  \* what the resolver did when it was asked, NotAsked before
    period,       \* args.interval
    lookups,      \* lookup_ip calls made
    target,       \* args.address once parsed
    mainPc,       \* "parse", "block_on", "drop_runtime", "exited"
    exitStatus,   \* the exit status, -1 until the process exits
    panicking,    \* the main thread is unwinding from a panic
    stderrMsg,    \* what clap or the panic hook wrote to stderr, "" if nothing
    runPc,        \* the run future: "unpolled", "tick", "join", "returned", "dropped"
    sigPc,        \* shutdown_signal: "unpolled", "listening", "resolved", "dropped"
    installed,    \* signal kinds with a handler installed
    sigPending,   \* signal kinds delivered to a listener and not yet consumed
    sigCount,     \* signals delivered so far
    now,          \* the clock
    deadline,     \* the Interval's next deadline
    tasks,        \* blocking tasks in spawn order: [st, res]
    log,          \* records handed to the tracing subscriber, in order
    startAt,      \* history: the instant run made its Interval, -1 before
    backlog,      \* history: the next tick was already due when the latest dispatch was made
    caughtUp      \* history: the latest dispatch took a tick that was due when the one before was made

vars == <<addressStr, resolverEnv, period, lookups, target, mainPc, exitStatus,
          panicking, stderrMsg, runPc, sigPc, installed, sigPending, sigCount,
          now, deadline, tasks, log, startAt, backlog, caughtUp>>

inputVars == <<addressStr, period>>

histVars == <<startAt, backlog, caughtUp>>

(* --------------------------- Address Resolver -------------------------- *)

\* address_str.parse::<IpAddr>(): Some address for a literal, NoAddr otherwise.
ParseIpLiteral(s) ==
    CASE s = "lit:A1" -> "A1"
      [] s = "lit:A2" -> "A2"
      [] OTHER -> NoAddr

\* Mutants: the last listed address is taken; a failed resolution falls back
\* to a default target instead of failing.
ParseAddress_LastListed(s, env) ==
    IF ParseIpLiteral(s) # NoAddr
    THEN [ok |-> TRUE, addr |-> ParseIpLiteral(s), err |-> "", lookups |-> 0]
    ELSE IF env.err \in {"builder_err", "runtime_err"}
    THEN [ok |-> FALSE, addr |-> NoAddr, err |-> env.err, lookups |-> 0]
    ELSE IF env.err = "lookup_err"
    THEN [ok |-> FALSE, addr |-> NoAddr, err |-> env.err, lookups |-> 1]
    ELSE IF Len(env.addrs) = 0
    THEN [ok |-> FALSE, addr |-> NoAddr, err |-> "No IP address found", lookups |-> 1]
    ELSE [ok |-> TRUE, addr |-> env.addrs[Len(env.addrs)], err |-> "", lookups |-> 1]

ParseAddress_Fallback(s, env) ==
    IF ParseIpLiteral(s) # NoAddr
    THEN [ok |-> TRUE, addr |-> ParseIpLiteral(s), err |-> "", lookups |-> 0]
    ELSE IF env.err \in {"builder_err", "runtime_err"}
    THEN [ok |-> TRUE, addr |-> "A1", err |-> "", lookups |-> 0]
    ELSE IF env.err = "lookup_err" \/ Len(env.addrs) = 0
    THEN [ok |-> TRUE, addr |-> "A1", err |-> "", lookups |-> 1]
    ELSE [ok |-> TRUE, addr |-> Head(env.addrs), err |-> "", lookups |-> 1]

\* Args::parse_address: [ok, addr, err, lookups].
ParseAddress(s, env) ==
    IF ParseIpLiteral(s) # NoAddr
    THEN [ok |-> TRUE, addr |-> ParseIpLiteral(s), err |-> "", lookups |-> 0]
    ELSE IF env.err \in {"builder_err", "runtime_err"}
    THEN [ok |-> FALSE, addr |-> NoAddr, err |-> env.err, lookups |-> 0]
    ELSE IF env.err = "lookup_err"
    THEN [ok |-> FALSE, addr |-> NoAddr, err |-> env.err, lookups |-> 1]
    ELSE IF Len(env.addrs) = 0
    THEN [ok |-> FALSE, addr |-> NoAddr, err |-> "No IP address found", lookups |-> 1]
    ELSE [ok |-> TRUE, addr |-> Head(env.addrs), err |-> "", lookups |-> 1]

(* ------------------------------ records -------------------------------- *)

\* A record of the log: level and text as the macros format them; n is the
\* number of the dispatch the record reports (0 for the process-level records).
\* n is a history tag for the ordering properties, not part of the line.
InfoSent(n) ==
    [level |-> "info", msg |-> "Sent ping to", target |-> target, detail |-> "", n |-> n]

ErrorFailed(n, err) ==
    [level |-> "error", msg |-> "Failed to ping", target |-> target, detail |-> err, n |-> n]

ErrorFatal(err) ==
    [level |-> "error", msg |-> "Error:", target |-> NoAddr, detail |-> err, n |-> 0]

InfoShuttingDown ==
    [level |-> "info", msg |-> "Shutting down", target |-> NoAddr, detail |-> "", n |-> 0]

(* ------------------------------- Init ---------------------------------- *)

Init ==
    /\ addressStr \in AddressStrs
    /\ resolverEnv = NotAsked
    /\ period \in Intervals
    /\ lookups = 0
    /\ target = NoAddr
    /\ mainPc = "parse"
    /\ exitStatus = -1
    /\ panicking = FALSE
    /\ stderrMsg = ""
    /\ runPc = "unpolled"
    /\ sigPc = "unpolled"
    /\ installed = {}
    /\ sigPending = {}
    /\ sigCount = 0
    /\ now = 0
    /\ deadline = 0
    /\ tasks = << >>
    /\ log = << >>
    /\ startAt = -1
    /\ backlog = FALSE
    /\ caughtUp = FALSE

(* ------------------------------ helpers -------------------------------- *)

Alive == mainPc \in {"block_on", "drop_runtime"}

RunLive == runPc \in {"unpolled", "tick", "join"}

NewTask == [st |-> "running", res |-> "none"]

\* The first poll of run goes from making the Interval, whose first tick is
\* ready, to the await of the first JoinHandle without yielding.
RunFirstPollDone == Len(tasks) > 0

\* The blocking tasks whose result has not been handed to the loop.
InFlight == {i \in 1..Len(tasks) : tasks[i].st \in {"running", "finished"}}

\* interval.tick() is ready once the deadline has passed.
TickReady == now >= deadline

\* Mutant: the first tick is due one period after the Interval is made.
FirstDeadline_AfterPeriod == now + period

\* tokio::time::interval(period): the first tick completes at once, its
\* deadline being the instant the Interval is made.
FirstDeadline == now

\* Mutant: MissedTickBehavior::Delay, the next tick one period after this one
\* was taken.
NextDeadline_Delay == now + period

\* An Interval made by tokio::time::interval has MissedTickBehavior::Burst:
\* the next deadline is one period after the deadline of the tick just
\* taken, however late that tick was taken.
NextDeadline == deadline + period

\* Mutant: the JoinHandle is not awaited, so a due tick dispatches again.
CanDispatch_NoAwait == runPc \in {"tick", "join"} /\ TickReady

\* The loop dispatches only from its tick suspension point: the .await on the
\* JoinHandle keeps it from reaching spawn_blocking again.
CanDispatch == runPc = "tick" /\ TickReady

\* Mutant: the loop ends with whatever the first task returned.
PropagatesErr_Always(res) == TRUE

\* Mutant: the ? is applied to the ping's result as well.
PropagatesErr_AnyErr(res) == res # "Ok"

\* The ? after map_err: only a JoinError leaves the loop; a ping's Err is a value.
PropagatesErr(res) == res = "panic"

\* The text of the error run returns for a task result that leaves the loop.
JoinErrText(res) == IF res = "panic" THEN "JoinError" ELSE res

\* Mutants: the match logs nothing; logs twice; logs success whatever the result.
OutcomeRecords_None(n, res) == << >>

OutcomeRecords_Twice(n, res) ==
    IF res = "Ok" THEN <<InfoSent(n), InfoSent(n)>>
    ELSE <<ErrorFailed(n, res), ErrorFailed(n, res)>>

OutcomeRecords_AlwaysSent(n, res) == <<InfoSent(n)>>

\* The match on the ping's result: the records the loop logs for dispatch n.
OutcomeRecords(n, res) ==
    IF res = "Ok" THEN <<InfoSent(n)>> ELSE <<ErrorFailed(n, res)>>

\* Mutant: the run branch falls through to the signal branch's record.
RunBranchRecords_AndShutdown(err) == <<ErrorFatal(err), InfoShuttingDown>>

\* Mutant: run's result is dropped without a record.
RunBranchRecords_Silent(err) == << >>

\* The run branch of main's select!: what is logged for run's result.
RunBranchRecords(err) == <<ErrorFatal(err)>>

\* Mutants: the select! is polled again after the signal branch ran; the loop
\* is a task of its own that the select! does not drop.
AfterShutdown_KeepsRunning ==
    [main |-> "block_on", run |-> runPc, sig |-> "resolved"]

AfterShutdown_LoopSurvives ==
    [main |-> "drop_runtime", run |-> runPc, sig |-> "resolved"]

\* Mutant: the select! sits in a loop with a fresh shutdown_signal each time.
AfterShutdown_Rearmed ==
    [main |-> "block_on", run |-> runPc, sig |-> "listening"]

\* Mutant: the signal branch lets a probe in flight be joined and logged.
AfterShutdown_AwaitsInFlight ==
    IF runPc = "join"
    THEN [main |-> "block_on", run |-> runPc, sig |-> "resolved"]
    ELSE [main |-> "drop_runtime", run |-> IF RunLive THEN "dropped" ELSE runPc,
          sig |-> "resolved"]

\* The signal branch of main's select!: shutdown_signal has completed, the
\* loop is dropped where it is suspended and block_on returns.
AfterShutdown ==
    [main |-> "drop_runtime", run |-> IF RunLive THEN "dropped" ELSE runPc,
     sig |-> "resolved"]

\* Mutant: the blocking pool is shut down without joining its threads.
RuntimeDropDone_NoWait == TRUE

\* Dropping the Runtime at the end of main shuts the blocking pool down and
\* joins its threads: it returns once no blocking task is still running.
RuntimeDropDone == \A i \in 1..Len(tasks) : tasks[i].st # "running"

(* ------------------------------ actions -------------------------------- *)

\* Args::parse(): the address is parsed (and resolved, the resolver behaving
\* as env) before anything else; on Err clap prints the error and exits.
ParseArgs(env) ==
    /\ mainPc = "parse"
    /\ resolverEnv' = IF ParseIpLiteral(addressStr) # NoAddr THEN NotAsked ELSE env
    /\ LET r == ParseAddress(addressStr, env) IN
        /\ lookups' = lookups + r.lookups
        /\ IF r.ok
           THEN /\ target' = r.addr
                /\ mainPc' = "block_on"
                /\ UNCHANGED <<exitStatus, stderrMsg>>
           ELSE /\ mainPc' = "exited"
                /\ exitStatus' = ExitUsage
                /\ stderrMsg' = r.err
                /\ UNCHANGED target
    /\ UNCHANGED <<inputVars, histVars, panicking, runPc, sigPc, installed, sigPending,
                   sigCount, now, deadline, tasks, log>>

\* First poll of run: the Interval is made, its first tick due at once.
RunStart ==
    /\ mainPc = "block_on"
    /\ runPc = "unpolled"
    /\ runPc' = "tick"
    /\ deadline' = FirstDeadline
    /\ startAt' = now
    /\ UNCHANGED <<inputVars, backlog, caughtUp, resolverEnv, lookups, target, mainPc, exitStatus, panicking,
                   stderrMsg, sigPc, installed, sigPending, sigCount, now, tasks, log>>

\* A tick completes, the next deadline is one period after this one, and the
\* ping is handed to the blocking pool; the loop then awaits the JoinHandle.
Dispatch ==
    /\ mainPc = "block_on"
    /\ CanDispatch
    /\ Len(tasks) < MaxDispatch
    /\ deadline' = NextDeadline
    /\ tasks' = Append(tasks, NewTask)
    /\ runPc' = "join"
    /\ backlog' = (now >= deadline')
    /\ caughtUp' = backlog
    /\ UNCHANGED <<inputVars, startAt, resolverEnv, lookups, target, mainPc, exitStatus, panicking,
                   stderrMsg, sigPc, installed, sigPending, sigCount, now, log>>

\* Ping::new(addr).send() returns (or panics) on its blocking-pool thread.
ProbeFinish(i, res) ==
    /\ Alive
    /\ i \in 1..Len(tasks)
    /\ tasks[i].st = "running"
    /\ tasks' = [tasks EXCEPT ![i].st = "finished", ![i].res = res]
    /\ UNCHANGED <<inputVars, histVars, resolverEnv, lookups, target, mainPc, exitStatus, panicking,
                   stderrMsg, runPc, sigPc, installed, sigPending, sigCount,
                   now, deadline, log>>

\* The JoinHandle of the task just spawned is ready: a JoinError makes run
\* return Err, which main's run branch logs before block_on returns; a ping
\* result is logged and the loop goes back to its tick.
\* run is polled a second time only after the first poll of the select!,
\* which polls shutdown_signal too, has ended.
Join ==
    /\ mainPc = "block_on"
    /\ runPc = "join"
    /\ sigPc # "unpolled"
    /\ Len(tasks) > 0
    /\ tasks[Len(tasks)].st = "finished"
    /\ LET n == Len(tasks)
           res == tasks[n].res
       IN  /\ tasks' = [tasks EXCEPT ![n].st = "joined"]
           /\ IF PropagatesErr(res)
              THEN /\ runPc' = "returned"
                   /\ log' = log \o RunBranchRecords(JoinErrText(res))
                   /\ mainPc' = "drop_runtime"
                   /\ sigPc' = IF sigPc = "listening" THEN "dropped" ELSE sigPc
              ELSE /\ runPc' = "tick"
                   /\ log' = log \o OutcomeRecords(n, res)
                   /\ UNCHANGED <<mainPc, sigPc>>
    /\ UNCHANGED <<inputVars, histVars, resolverEnv, lookups, target, exitStatus, panicking, stderrMsg,
                   installed, sigPending, sigCount, now, deadline>>

\* First poll of shutdown_signal, made by the first poll of the select!
\* either before run is polled or when run's first poll has yielded: both
\* listeners are registered; a failed registration panics through expect,
\* and main unwinds.
PollShutdownSignal(ok) ==
    /\ mainPc = "block_on"
    /\ sigPc = "unpolled"
    /\ runPc = "unpolled" \/ RunFirstPollDone
    /\ IF ok
       THEN /\ installed' = SignalKinds
            /\ sigPc' = "listening"
            /\ UNCHANGED <<mainPc, panicking, stderrMsg, runPc>>
       ELSE /\ panicking' = TRUE
            /\ stderrMsg' = "failed to install handler"
            /\ mainPc' = "drop_runtime"
            /\ sigPc' = "dropped"
            /\ runPc' = IF RunLive THEN "dropped" ELSE runPc
            /\ UNCHANGED installed
    /\ UNCHANGED <<inputVars, histVars, resolverEnv, lookups, target, exitStatus, sigPending, sigCount,
                   now, deadline, tasks, log>>

\* The operating system delivers SIGINT or SIGTERM to the installed handler;
\* a live listener records it.
Signal(k) ==
    /\ Alive
    /\ k \in installed
    /\ sigCount < MaxSignals
    /\ sigCount' = sigCount + 1
    /\ sigPending' = IF sigPc = "listening" THEN sigPending \cup {k} ELSE sigPending
    /\ UNCHANGED <<inputVars, histVars, resolverEnv, lookups, target, mainPc, exitStatus, panicking,
                   stderrMsg, runPc, sigPc, installed, now, deadline, tasks, log>>

\* shutdown_signal resolves on either listener and main's signal branch runs.
ShutdownResolve ==
    /\ mainPc = "block_on"
    /\ sigPc = "listening"
    /\ sigPending # {}
    /\ sigPc' = AfterShutdown.sig
    /\ sigPending' = {}
    /\ log' = Append(log, InfoShuttingDown)
    /\ mainPc' = AfterShutdown.main
    /\ runPc' = AfterShutdown.run
    /\ UNCHANGED <<inputVars, histVars, resolverEnv, lookups, target, exitStatus, panicking, stderrMsg,
                   installed, sigCount, now, deadline, tasks>>

\* The clock moves on.
AdvanceTime ==
    /\ Alive
    /\ now < MaxTime
    /\ now' = now + 1
    /\ UNCHANGED <<inputVars, histVars, resolverEnv, lookups, target, mainPc, exitStatus, panicking,
                   stderrMsg, runPc, sigPc, installed, sigPending, sigCount,
                   deadline, tasks, log>>

\* main ends: the Runtime is dropped and the process exits, with status 0
\* when main returned and 101 when it panicked.
Exit ==
    /\ mainPc = "drop_runtime"
    /\ RuntimeDropDone
    /\ mainPc' = "exited"
    /\ exitStatus' = IF panicking THEN ExitPanic ELSE ExitSuccess
    /\ UNCHANGED <<inputVars, histVars, resolverEnv, lookups, target, panicking, stderrMsg, runPc, sigPc,
                   installed, sigPending, sigCount, now, deadline, tasks, log>>

Next ==
    \/ \E env \in ResolverEnvs : ParseArgs(env)
    \/ RunStart
    \/ Dispatch
    \/ \E i \in 1..MaxDispatch + 1, res \in TaskResults : ProbeFinish(i, res)
    \/ Join
    \/ \E ok \in BOOLEAN : PollShutdownSignal(ok)
    \/ \E k \in SignalKinds : Signal(k)
    \/ ShutdownResolve
    \/ AdvanceTime
    \/ Exit

Spec == Init /\ [][Next]_vars

\* The main thread is never starved: every poll that can make progress is
\* made.  Nothing obliges a ping to return, a signal to arrive or the clock
\* bound of the model to be reached.
MainStep ==
    \/ \E env \in ResolverEnvs : ParseArgs(env)
    \/ RunStart
    \/ Dispatch
    \/ Join
    \/ \E ok \in BOOLEAN : PollShutdownSignal(ok)
    \/ ShutdownResolve
    \/ Exit

FairSpec == Spec /\ WF_vars(MainStep)

(* ------------------------- properties of the log ------------------------ *)

\* The positions of the log that report dispatch n.
RecordsFor(n) == {i \in 1..Len(log) : log[i].n = n}

IsOutcomeRecord(r) == r.n > 0

\* The probe-outcome records, in the order they were emitted.
OutcomeLog == SelectSeq(log, IsOutcomeRecord)

\* The tasks whose ping result (not a JoinError) was handed to the loop.
Completed == {n \in 1..Len(tasks) : tasks[n].st = "joined" /\ tasks[n].res # "panic"}

\* C1: at most one probe is in flight in every reachable state: no probe is
\* dispatched while an earlier one has not returned its result to the loop,
\* however long a probe takes compared with the interval.
C1_AtMostOneInFlight == Cardinality(InFlight) <= 1

\* A slow probe: the second probe is still running although the next tick is due.
C1_Witness ==
    /\ Len(tasks) = 2
    /\ tasks[2].st = "running"
    /\ runPc = "join"
    /\ now >= deadline

\* C2: dispatches are strictly sequential: when dispatch N+1 has begun the
\* record of dispatch N's result is already in the log, and the records are in
\* the order of the dispatches they report.
C2_Sequential ==
    /\ \A n \in 1..(Len(tasks) - 1) : RecordsFor(n) # {}
    /\ \A i, j \in 1..Len(OutcomeLog) : i < j => OutcomeLog[i].n < OutcomeLog[j].n

C2_Witness ==
    /\ Len(tasks) = 3
    /\ Len(OutcomeLog) = 3
    /\ now < deadline

\* C3 as stated: every dispatched probe that produces an outcome has exactly
\* one record by the time the process has exited, also in runs ended by a
\* signal (runs in which main panics are left aside here).
C3_Original ==
    (mainPc = "exited" /\ ~panicking) =>
        \A n \in 1..Len(tasks) :
            tasks[n].res \in {"Ok"} \cup PingErrors => Cardinality(RecordsFor(n)) = 1

\* C3 amended: a probe has exactly one record if its result was handed to the
\* loop and none otherwise; it never has two.  A probe whose result the loop
\* never receives, because the signal branch won first, is not logged.
C3_OneRecordPerReceivedOutcome ==
    \A n \in 1..Len(tasks) :
        Cardinality(RecordsFor(n)) = IF n \in Completed THEN 1 ELSE 0

\* A run ended by a signal in which one probe was logged and the next one
\* produced its outcome without ever being logged.
C3_Witness ==
    /\ mainPc = "exited"
    /\ sigPc = "resolved"
    /\ Len(tasks) = 2
    /\ tasks[1].st = "joined"
    /\ tasks[2].st = "finished"
    /\ tasks[2].res = "Ok"

\* C4: for N completed ticks with outcomes o1..oN there are exactly N outcome
\* records, and the k-th is the info record "Sent ping to {target}" when ok is
\* a success and the error record "Failed to ping {target}, error: ..." when
\* it is a failure.
C4_RecordsMatchOutcomes ==
    /\ Len(OutcomeLog) = Cardinality(Completed)
    /\ \A k \in 1..Len(OutcomeLog) :
        /\ k \in Completed
        /\ OutcomeLog[k].target = target
        /\ IF tasks[k].res = "Ok"
           THEN /\ OutcomeLog[k].level = "info"
                /\ OutcomeLog[k].msg = "Sent ping to"
           ELSE /\ OutcomeLog[k].level = "error"
                /\ OutcomeLog[k].msg = "Failed to ping"
                /\ OutcomeLog[k].detail = tasks[k].res

\* An alternating executor: success, timeout, success, all three logged.
C4_Witness ==
    /\ Len(OutcomeLog) = 3
    /\ tasks[1].res = "Ok"
    /\ tasks[2].res = "timeout"
    /\ tasks[3].res = "Ok"

(* ------------------- properties of the loop and the race --------------- *)

\* The step hands the result of a finished task to the loop.
JoinStep(n) ==
    /\ n \in 1..Len(tasks)
    /\ tasks[n].st = "finished"
    /\ Len(tasks') = Len(tasks)
    /\ tasks'[n].st = "joined"

\* The step is the signal branch of the select! resolving.
ShutdownStep == sigPc # "resolved" /\ sigPc' = "resolved"

C6_NoDispatchAfterShutdown ==
    [][ /\ sigPc' = "resolved" => (mainPc' \in {"drop_runtime", "exited"} /\ ~RunLive')
        /\ sigPc = "resolved" => tasks' \in {tasks} \cup
                {[tasks EXCEPT ![i].st = "finished", ![i].res = r] :
                    i \in 1..Len(tasks), r \in TaskResults}
      ]_vars

\* After the shutdown a tick falls due and is not dispatched.
C6_Witness ==
    /\ sigPc = "resolved"
    /\ mainPc = "exited"
    /\ now >= deadline
    /\ InFlight = {}
    /\ Len(tasks) \in 1..(MaxDispatch - 1)

\* C7 as stated: the scheduler is never stopped by a shutdown while the result
\* of a dispatched probe is still awaited.
C7_Original == sigPc = "resolved" => InFlight = {}

\* C7 amended: a shutdown stops the scheduler at whichever suspension point it
\* is in, the wait for the probe's result included: the loop is then dropped,
\* at most the probe dispatched last is left unjoined, and every earlier
\* probe's result has been received and logged.
C7_StoppedAtAnySuspensionPoint ==
    sigPc = "resolved" =>
        /\ runPc = "dropped"
        /\ InFlight \subseteq {Len(tasks)}
        /\ \A n \in (1..Len(tasks)) \ InFlight :
            tasks[n].st = "joined" /\ RecordsFor(n) # {}

\* Stopped while dispatching: the probe in flight is still running.
C7_Witness ==
    /\ sigPc = "resolved"
    /\ runPc = "dropped"
    /\ Len(tasks) = 2
    /\ tasks[1].st = "joined"
    /\ tasks[2].st = "running"

\* C8 as stated: after a signal the process eventually exits even if the
\* probe in flight never returns.
C8_Original ==
    (sigPc = "resolved" /\ \E i \in 1..Len(tasks) : tasks[i].st = "running")
        ~> (mainPc = "exited")

\* C8 amended: a signal that arrives while a probe is in flight makes block_on
\* return without waiting for the probe (the shutdown step leaves the tasks as
\* they are, and main leaves block_on whether or not the probe ever returns),
\* but the process exits only once no blocking task is still running.
C8_ExitWaitsForProbe ==
    /\ (sigPending # {} /\ mainPc = "block_on") ~> (mainPc \in {"drop_runtime", "exited"})
    /\ [][ShutdownStep => tasks' = tasks]_vars
    /\ [](mainPc = "exited" => \A i \in 1..Len(tasks) : tasks[i].st # "running")
    /\ [](mainPc = "drop_runtime" /\ (\A i \in 1..Len(tasks) : tasks[i].st # "running")
            => <>(mainPc = "exited"))

\* The signal branch has resolved and main is held in the drop of the Runtime
\* by the probe that is still running.
C8_Witness ==
    /\ sigPc = "resolved"
    /\ mainPc = "drop_runtime"
    /\ Len(tasks) >= 1
    /\ tasks[Len(tasks)].st = "running"

\* C9: a JoinError is fatal to the scheduler: the step that receives it makes
\* run return, logs exactly one "Error:" record and takes main out of
\* block_on; afterwards nothing is dispatched or logged, so at exit that
\* record is the only one and the last.
C9_DispatchErrorFatal ==
    /\ [][ /\ \A n \in 1..Len(tasks) :
                JoinStep(n) /\ tasks[n].res = "panic" =>
                    /\ runPc' = "returned"
                    /\ mainPc' = "drop_runtime"
                    /\ log' = Append(log, [level |-> "error", msg |-> "Error:",
                                           target |-> NoAddr, detail |-> "JoinError",
                                           n |-> 0])
           /\ runPc = "returned" => (Len(tasks') = Len(tasks) /\ log' = log)
         ]_vars
    /\ [](runPc = "returned" =>
            /\ Cardinality({i \in 1..Len(log) : log[i].msg = "Error:"}) = 1
            /\ log[Len(log)].msg = "Error:"
            /\ tasks[Len(tasks)].st = "joined"
            /\ tasks[Len(tasks)].res = "panic")

\* The second task panicked, the error was logged once and the process exited
\* with ticks still to come.
C9_Witness ==
    /\ runPc = "returned"
    /\ mainPc = "exited"
    /\ Len(tasks) = 2
    /\ Len(log) = 2
    /\ now >= deadline

\* C10: the exit status is 0 when the run is ended by a shutdown signal and
\* non-zero when the loop terminated with a dispatch-mechanism error.
C10_ExitStatus ==
    mainPc = "exited" =>
        /\ sigPc = "resolved" => exitStatus = 0
        /\ runPc = "returned" => exitStatus # 0

(* ----------------------- properties of the shutdown -------------------- *)

\* The number of "Shutting down" records in the log.
ShuttingDownCount == Cardinality({i \in 1..Len(log) : log[i].msg = "Shutting down"})

\* The number of "Error:" records in the log.
FatalCount == Cardinality({i \in 1..Len(log) : log[i].msg = "Error:"})

\* C11 as stated: whenever at least one shutdown signal reached a listener
\* of shutdown_signal while main was still in block_on, the run has exactly
\* one "Shutting down" record when the process has exited.
C11_Original ==
    (mainPc = "exited" /\ (sigPending # {} \/ sigPc = "resolved")) =>
        ShuttingDownCount = 1

\* C11 amended: shutdown is idempotent.  However many signals arrive, from
\* either source, there is never more than one "Shutting down" record; there
\* is exactly one at exit unless the loop had already ended with a dispatch
\* error when the signal could be acted on (then there is none); once the
\* signal branch has resolved, a further signal changes nothing but the count
\* of signals delivered; and an exited process stays exited.
C11_ShutdownIdempotent ==
    /\ [](ShuttingDownCount <= 1)
    /\ []((mainPc = "exited" /\ sigCount >= 1) =>
            ShuttingDownCount = IF runPc = "returned" THEN 0 ELSE 1)
    /\ [][ /\ (sigPc = "resolved" /\ sigCount' # sigCount) =>
                /\ log' = log
                /\ mainPc' = mainPc
                /\ runPc' = runPc
                /\ sigPc' = sigPc
                /\ tasks' = tasks
                /\ exitStatus' = exitStatus
           /\ mainPc = "exited" => (mainPc' = "exited" /\ exitStatus' = exitStatus)
         ]_vars

\* Two signals were delivered, the second after the signal branch had already
\* resolved, and the run ended with one record and one exit.
C11_Witness ==
    /\ mainPc = "exited"
    /\ sigCount = 2
    /\ sigPending = {}
    /\ sigPc = "resolved"
    /\ ShuttingDownCount = 1
    /\ exitStatus = 0

(* ------------------------- properties of the timer --------------------- *)

\* The step dispatches a probe.
DispatchStep == Len(tasks') = Len(tasks) + 1

\* C12 as stated: ticks missed while a probe overran are consumed or delayed,
\* never kept for later: once a probe has been dispatched no tick is already
\* due behind it, so no catch-up dispatch can follow at once.
C12_Original == [][DispatchStep => now < deadline']_vars

\* C12 amended: ticks that fall due while a probe is executing never start a
\* second probe, and they are not discarded either.  The timer keeps its
\* schedule, each deadline one period after the one before however late the
\* tick was taken, so after an overrun the missed ticks are dispatched one
\* at a time, back to back, until the schedule is caught up; the dispatches
\* never run ahead of the schedule.
C12_MissedTicksAreCaughtUp ==
    /\ [][DispatchStep =>
            /\ InFlight = {}
            /\ now >= deadline
            /\ deadline' = deadline + period]_vars
    /\ [](startAt >= 0 => deadline = startAt + Len(tasks) * period)
    /\ [](Len(tasks) >= 1 => now >= startAt + (Len(tasks) - 1) * period)

\* A catch-up dispatch: the third probe took a tick that was already due when
\* the second was dispatched, and the second is logged.
C12_Witness ==
    /\ caughtUp
    /\ Len(tasks) = 3
    /\ tasks[3].st = "running"
    /\ Len(OutcomeLog) = 2

\* The scenario of C13 at clock resolution: the loop started at instant 0,
\* every probe returned Ok and was logged, every tick due so far has been
\* dispatched, and the signal branch has resolved.
QuickSuccessRun ==
    /\ startAt = 0
    /\ sigPc = "resolved"
    /\ now < deadline
    /\ \A n \in 1..Len(tasks) : tasks[n].st = "joined" /\ tasks[n].res = "Ok"

\* C13 as stated: interval 100 ms (one clock unit), signal at 350 ms (within
\* instant 3): exactly 3 "Sent ping" records.
C13_Original ==
    (QuickSuccessRun /\ period = 1 /\ now = 3) => Len(OutcomeLog) = 3

\* C13 amended: the first tick fires when the loop starts, so a quick,
\* always-succeeding executor has produced one "Sent ping" record per period
\* elapsed plus one by the time the signal arrives: ticks at 0, 100, 200 and
\* 300 ms give 4 records at 350 ms.  "Shutting down" is then the last record
\* and the exit status is 0.
C13_QuickSuccessCount ==
    QuickSuccessRun =>
        /\ Len(OutcomeLog) = (now \div period) + 1
        /\ \A k \in 1..Len(OutcomeLog) : OutcomeLog[k].msg = "Sent ping to"
        /\ Len(log) = Len(OutcomeLog) + 1
        /\ log[Len(log)].msg = "Shutting down"
        /\ mainPc = "exited" => exitStatus = 0

\* Interval one unit, signal within instant 3, four records, clean exit.
C13_Witness ==
    /\ QuickSuccessRun
    /\ period = 1
    /\ now = 3
    /\ Len(OutcomeLog) = 4
    /\ mainPc = "exited"

(* ----------------------- properties of the resolver -------------------- *)

\* The address string is a literal; the string is not a literal and the
\* resolver could not be made, reported an error, or listed no address.
IsLiteral == addressStr \in {"lit:A1", "lit:A2"}

Parsed == mainPc # "parse"

ResolverUnavailable == resolverEnv.err \in {"builder_err", "runtime_err"}

ResolutionFailed ==
    /\ Parsed
    /\ ~IsLiteral
    /\ (resolverEnv.err # "none" \/ resolverEnv.addrs = << >>)

\* C14 as stated: a literal gives that address with zero lookups; anything
\* else takes exactly one lookup and, on a non-empty answer, the first
\* listed address.
C14_Original ==
    Parsed =>
        IF IsLiteral
        THEN target = ParseIpLiteral(addressStr) /\ lookups = 0
        ELSE /\ lookups = 1
             /\ (resolverEnv.err = "none" /\ resolverEnv.addrs # << >>) =>
                    target = Head(resolverEnv.addrs)

\* C14 amended: a literal gives that address with zero lookups; anything else
\* takes at most one lookup, exactly one unless the resolver or its runtime
\* could not be built (then none), and on a non-empty answer the result is
\* the first listed address.
C14_ResolverReference ==
    Parsed =>
        IF IsLiteral
        THEN /\ target = ParseIpLiteral(addressStr)
             /\ lookups = 0
             /\ resolverEnv = NotAsked
        ELSE /\ lookups = (IF ResolverUnavailable THEN 0 ELSE 1)
             /\ (resolverEnv.err = "none" /\ resolverEnv.addrs # << >>) =>
                    /\ target = Head(resolverEnv.addrs)
                    /\ mainPc # "exited" \/ exitStatus # ExitUsage

\* A host name whose answer lists A2 before A1 resolved to A2 in one lookup.
C14_Witness ==
    /\ addressStr = "host"
    /\ resolverEnv = [err |-> "none", addrs |-> <<"A2", "A1">>]
    /\ target = "A2"
    /\ lookups = 1
    /\ mainPc = "block_on"

\* C15 as stated: a failed resolution ends the process before any tick, with
\* a resolution error in the log and no probe ever dispatched.
C15_Original ==
    ResolutionFailed =>
        /\ mainPc = "exited"
        /\ tasks = << >>
        /\ \E i \in 1..Len(log) : log[i].level = "error"

\* C15 amended: a failed resolution ends the process during argument parsing,
\* before the logger, the runtime and the timer exist: the error text is
\* written to standard error by the argument parser, the exit status is 2,
\* the log stays empty, no tick fires and no probe is ever dispatched.
C15_ResolutionFailureAborts ==
    ResolutionFailed =>
        /\ mainPc = "exited"
        /\ exitStatus = ExitUsage
        /\ stderrMsg = (IF resolverEnv.err = "none" THEN "No IP address found"
                        ELSE resolverEnv.err)
        /\ log = << >>
        /\ tasks = << >>
        /\ target = NoAddr
        /\ runPc = "unpolled"
        /\ sigPc = "unpolled"
        /\ startAt = -1

\* The host name resolved to no address and the process has exited.
C15_Witness ==
    /\ addressStr = "host"
    /\ resolverEnv = [err |-> "none", addrs |-> << >>]
    /\ lookups = 1
    /\ mainPc = "exited"
    /\ stderrMsg = "No IP address found"

(* ------------------ properties of the handler installation ------------- *)

\* C16: a failure to install a signal handler is fatal at startup: the process
\* terminates and no probe is dispatched in a run where the installation
\* fails.
C16_NoProbeWhenInstallFails ==
    panicking => (tasks = << >> /\ (mainPc = "exited" => exitStatus # ExitSuccess))

(* ------------------- properties of the race and the exit --------------- *)

\* The number of terminal records in the log.
TerminalCount == ShuttingDownCount + FatalCount

\* C17: the race in main resolves once: at most one terminal record,
\* "Shutting down" or "Error:", is ever in the log, never both, also when a
\* JoinError and a signal are ready together; the record is written by the
\* step that takes main out of block_on and nothing is logged after it.
C17_RaceResolvesOnce ==
    /\ [](TerminalCount <= 1)
    /\ [][ /\ TerminalCount' > TerminalCount =>
                (mainPc = "block_on" /\ mainPc' = "drop_runtime")
           /\ TerminalCount = 1 => log' = log
         ]_vars

\* A JoinError and a signal were ready together, the run branch won and the
\* process exited with the one "Error:" record, the signal still pending.
C17_Witness ==
    /\ mainPc = "exited"
    /\ runPc = "returned"
    /\ sigPending # {}
    /\ FatalCount = 1
    /\ ShuttingDownCount = 0

\* C18: "Shutting down" is the last record of the log: the result of a probe
\* in flight when the signal branch won is never joined and never logged, so
\* the outcome records number the dispatches or one fewer, at exit too.
C18_InFlightResultDiscarded ==
    /\ [][ShuttingDownCount = 1 =>
            /\ log' = log
            /\ \A n \in 1..Len(tasks) : tasks'[n].st = "joined" => tasks[n].st = "joined"
         ]_vars
    /\ [](ShuttingDownCount = 1 =>
            /\ log[Len(log)].msg = "Shutting down"
            /\ \A n \in InFlight : RecordsFor(n) = {})
    /\ [](Len(OutcomeLog) \in {Len(tasks), Len(tasks) - 1})
    /\ [](mainPc = "exited" /\ sigPc = "resolved" =>
            Len(OutcomeLog) = Len(tasks) - Cardinality(InFlight))

\* The second probe returned Ok after the signal branch had won; the process
\* has exited with one outcome record for two dispatches.
C18_Witness ==
    /\ mainPc = "exited"
    /\ sigPc = "resolved"
    /\ Len(tasks) = 2
    /\ tasks[2].st = "finished"
    /\ tasks[2].res = "Ok"
    /\ Len(OutcomeLog) = 1
    /\ log[Len(log)].msg = "Shutting down"

\* main has left block_on.
LeftBlockOn == target # NoAddr /\ mainPc \in {"drop_runtime", "exited"}

\* C19 as stated: with neither a shutdown signal nor a dispatch error the
\* process never exits.
C19_Original ==
    LeftBlockOn => (sigCount >= 1 \/ runPc = "returned")

\* C19 amended: run has no path that returns Ok: it returns only with a
\* JoinError.  Once the signal handlers are installed, main leaves block_on
\* only on a shutdown signal or a dispatch error; with neither, the loop stays
\* live and a tick that is due while the loop waits for it is dispatched. The
\* one other end is the panic of a failed handler installation.
C19_LoopNeverCompletes ==
    /\ [](runPc = "returned" =>
            /\ tasks[Len(tasks)].res = "panic"
            /\ FatalCount = 1)
    /\ [](LeftBlockOn => (sigPc = "resolved" \/ runPc = "returned" \/ panicking))
    /\ []((mainPc = "block_on" /\ sigPc = "listening") => (RunLive /\ exitStatus = -1))
    /\ (mainPc = "block_on" /\ CanDispatch /\ Len(tasks) < MaxDispatch) ~> (runPc # "tick")
    /\ [][(runPc = "tick" /\ runPc' # "tick") =>
            (DispatchStep \/ ShutdownStep \/ panicking')]_vars

\* Neither a signal nor a dispatch error: the loop is still live after three
\* probes were joined, a fourth one in flight.
C19_Witness ==
    /\ mainPc = "block_on"
    /\ sigPc = "listening"
    /\ sigCount = 0
    /\ period = 1
    /\ Len(tasks) = 4
    /\ Len(OutcomeLog) = 3
    /\ runPc = "join"

====
